---- MODULE Spec2Model ----
(***************************************************************************)
(* Model of the cache_control crate (src/src/lib.rs): the two parsers      *)
(* CacheControl::from_value and CacheControl::from_header.                 *)
(*                                                                         *)
(* A &str is a sequence of one-character strings, so that splitting,       *)
(* trimming, case folding and integer parsing are computed character by    *)
(* character.  Option<T> is a sequence of length 0 (None) or 1 (Some).     *)
(* A u64 and a Duration of whole seconds are the canonical decimal digits  *)
(* of the number (no leading zero), which keeps the full 64-bit range.     *)
(***************************************************************************)
EXTENDS Integers, Sequences, FiniteSets

VARIABLES
    fn,      \* the entry point called: "from_value" or "from_header"
    tokens,  \* the comma-separated pieces the argument is made of
    hname,   \* from_header: the text put before the colon
    hcolon,  \* from_header: whether the line holds that colon
    value,   \* the `value: &str` argument of the call
    pc,      \* "call" before the call, "done" once it returned
    result   \* the Option<Self> returned

vars == <<fn, tokens, hname, hcolon, value, pc, result>>

(***************************************************************************)
(* Bounds of the inputs.                                                   *)
(***************************************************************************)
MaxTokens == 2

MaxCoreTokens == 3

MaxHeaderTokens == 2

(***************************************************************************)
(* Option                                                                  *)
(***************************************************************************)
None == <<>>

Some(x) == <<x>>

(***************************************************************************)
(* str primitives used by the parsers                                      *)
(***************************************************************************)
\* char::is_whitespace, on the characters of the inputs
is_whitespace(c) == c \in {" ", "\t", "\n", "\r"}

RECURSIVE trim_start(_)
trim_start(s) ==
    IF s = <<>> THEN s
    ELSE IF is_whitespace(Head(s)) THEN trim_start(Tail(s)) ELSE s

RECURSIVE trim_end(_)
trim_end(s) ==
    IF s = <<>> THEN s
    ELSE IF is_whitespace(s[Len(s)]) THEN trim_end(SubSeq(s, 1, Len(s) - 1)) ELSE s

\* str::trim
trim(s) == trim_end(trim_start(s))

\* index of the first occurrence of c in s, 0 if there is none
find(s, c) ==
    IF \E i \in 1..Len(s) : s[i] = c
    THEN CHOOSE i \in 1..Len(s) : s[i] = c /\ \A j \in 1..(i - 1) : s[j] # c
    ELSE 0

\* str::split(c), collected: every piece between occurrences of c
RECURSIVE split(_, _)
split(s, c) ==
    LET i == find(s, c)
    IN  IF i = 0 THEN <<s>>
        ELSE <<SubSeq(s, 1, i - 1)>> \o split(SubSeq(s, i + 1, Len(s)), c)

\* str::split_once(c): the text before and after the first c
split_once(s, c) ==
    LET i == find(s, c)
    IN  IF i = 0 THEN None
        ELSE Some(<<SubSeq(s, 1, i - 1), SubSeq(s, i + 1, Len(s))>>)

AsciiUpper == <<"A", "B", "C", "D", "E", "F", "G", "H", "I", "J", "K", "L", "M", "N", "O", "P", "Q", "R", "S", "T", "U", "V", "W", "X", "Y", "Z">>

AsciiLower == <<"a", "b", "c", "d", "e", "f", "g", "h", "i", "j", "k", "l", "m", "n", "o", "p", "q", "r", "s", "t", "u", "v", "w", "x", "y", "z">>

\* u8::to_ascii_lowercase
to_ascii_lowercase(c) ==
    IF \E i \in 1..Len(AsciiUpper) : AsciiUpper[i] = c
    THEN AsciiLower[CHOOSE i \in 1..Len(AsciiUpper) : AsciiUpper[i] = c]
    ELSE c

\* eq_ignore_ascii_case written as `==`
eq_exact(a, b) == a = b

\* str::eq_ignore_ascii_case
eq_ignore_ascii_case(a, b) ==
    /\ Len(a) = Len(b)
    /\ \A i \in 1..Len(a) : to_ascii_lowercase(a[i]) = to_ascii_lowercase(b[i])

(***************************************************************************)
(* u64::from_str, as reached by `v.parse()` with the type that             *)
(* Duration::from_secs takes                                               *)
(***************************************************************************)
DecDigits == <<"0", "1", "2", "3", "4", "5", "6", "7", "8", "9">>

is_digit(c) == \E i \in 1..Len(DecDigits) : DecDigits[i] = c

digit_value(c) == (CHOOSE i \in 1..Len(DecDigits) : DecDigits[i] = c) - 1

U64_MAX == <<"1", "8", "4", "4", "6", "7", "4", "4", "0", "7", "3", "7", "0", "9", "5", "5", "1", "6", "1", "5">>

\* the canonical digits of a digit string: leading zeros dropped
RECURSIVE canonical(_)
canonical(ds) ==
    IF Len(ds) > 1 /\ Head(ds) = "0" THEN canonical(Tail(ds)) ELSE ds

\* a <= b for canonical digit strings
RECURSIVE digits_le(_, _)
digits_le(a, b) ==
    IF Len(a) # Len(b) THEN Len(a) < Len(b)
    ELSE IF a = <<>> THEN TRUE
    ELSE IF Head(a) # Head(b) THEN digit_value(Head(a)) < digit_value(Head(b))
    ELSE digits_le(Tail(a), Tail(b))

\* Empty input, a lone sign, a '-', a non-digit and a value above u64::MAX
\* are errors; a leading '+' is accepted.  `.ok()` turns the error to None.
parse(v) ==
    IF v = <<>> THEN None
    ELSE LET ds == IF Head(v) = "+" THEN Tail(v) ELSE v
         IN  IF ds = <<>> \/ \E i \in 1..Len(ds) : ~is_digit(ds[i]) THEN None
             ELSE IF ~digits_le(canonical(ds), U64_MAX) THEN None
             ELSE Some(canonical(ds))

\* Duration::from_secs
from_secs(secs) == secs

(***************************************************************************)
(* CacheControl                                                            *)
(***************************************************************************)
Cachability == {"Public", "Private", "NoCache", "OnlyIfCached"}

\* #[derive(Default)]
Default ==
    [ cachability      |-> None,
      max_age          |-> None,
      s_max_age        |-> None,
      max_stale        |-> None,
      min_fresh        |-> None,
      must_revalidate  |-> FALSE,
      proxy_revalidate |-> FALSE,
      immutable        |-> FALSE,
      no_store         |-> FALSE,
      no_transform     |-> FALSE ]

\* key_val without `.map(|s| s.trim())`
key_val_untrimmed(token) ==
    LET pieces == split(token, "=")
    IN  [ key |-> pieces[1],
          val |-> IF Len(pieces) >= 2 THEN Some(pieces[2]) ELSE None ]

\* key_val with the key folded to lower case before the match
key_val_fold(token) ==
    LET pieces == split(token, "=")
    IN  [ key |-> [i \in 1..Len(trim(pieces[1])) |-> to_ascii_lowercase(trim(pieces[1])[i])],
          val |-> IF Len(pieces) >= 2 THEN Some(trim(pieces[2])) ELSE None ]

\* let (key, val) = { let mut split = token.split('=').map(|s| s.trim());
\*                    (split.next().unwrap(), split.next()) };
key_val(token) ==
    LET pieces == split(token, "=")
    IN  [ key |-> trim(pieces[1]),
          val |-> IF Len(pieces) >= 2 THEN Some(trim(pieces[2])) ELSE None ]

\* arms "public" .. "only-if-cached": ret.cachability = Some(..)
set_cachability(ret, c) == Some([ret EXCEPT !.cachability = Some(c)])

\* arms "max-age", "max-stale", "min-fresh":
\*   match val.and_then(|v| v.parse().ok()) { Some(secs) => field = .., None => return None }
set_duration(ret, field, val) ==
    LET secs == IF val = None THEN None ELSE parse(val[1])
    IN  IF secs = None THEN None
        ELSE Some([ret EXCEPT ![field] = Some(from_secs(secs[1]))])

\* set_flag written as `field = !field`
set_flag_toggle(ret, field) == Some([ret EXCEPT ![field] = ~ret[field]])

\* arms "must-revalidate" .. "no-transform": field = true
set_flag(ret, field) == Some([ret EXCEPT ![field] = TRUE])

\* the fallback arm with an added "s-maxage" arm filling s_max_age
unknown_s_maxage(ret, key, val) ==
    IF key = <<"s", "-", "m", "a", "x", "a", "g", "e">>
    THEN LET secs == IF val = None THEN None ELSE parse(val[1])
         IN  IF secs = None THEN None
             ELSE Some([ret EXCEPT !.s_max_age = Some(from_secs(secs[1]))])
    ELSE Some(ret)

\* the fallback arm written as `_ => return None`
unknown_rejects(ret, key, val) == None

\* arm `_ => ()`
unknown(ret, key, val) == Some(ret)

\* One turn of the loop body: the match on key.  None stands for `return None`,
\* Some(r) for the record after the arm.
dispatch(ret, key, val) ==
    CASE key = <<"p", "u", "b", "l", "i", "c">>           -> set_cachability(ret, "Public")
      [] key = <<"p", "r", "i", "v", "a", "t", "e">>          -> set_cachability(ret, "Private")
      [] key = <<"n", "o", "-", "c", "a", "c", "h", "e">>         -> set_cachability(ret, "NoCache")
      [] key = <<"o", "n", "l", "y", "-", "i", "f", "-", "c", "a", "c", "h", "e", "d">>   -> set_cachability(ret, "OnlyIfCached")
      [] key = <<"m", "a", "x", "-", "a", "g", "e">>          -> set_duration(ret, "max_age", val)
      [] key = <<"m", "a", "x", "-", "s", "t", "a", "l", "e">>        -> set_duration(ret, "max_stale", val)
      [] key = <<"m", "i", "n", "-", "f", "r", "e", "s", "h">>        -> set_duration(ret, "min_fresh", val)
      [] key = <<"m", "u", "s", "t", "-", "r", "e", "v", "a", "l", "i", "d", "a", "t", "e">>  -> set_flag(ret, "must_revalidate")
      [] key = <<"p", "r", "o", "x", "y", "-", "r", "e", "v", "a", "l", "i", "d", "a", "t", "e">> -> set_flag(ret, "proxy_revalidate")
      [] key = <<"i", "m", "m", "u", "t", "a", "b", "l", "e">>        -> set_flag(ret, "immutable")
      [] key = <<"n", "o", "-", "s", "t", "o", "r", "e">>         -> set_flag(ret, "no_store")
      [] key = <<"n", "o", "-", "t", "r", "a", "n", "s", "f", "o", "r", "m">>     -> set_flag(ret, "no_transform")
      [] OTHER                      -> unknown(ret, key, val)

\* for token in value.split(',') { .. }  Some(ret)
RECURSIVE for_tokens(_, _)
for_tokens(toks, ret) ==
    IF toks = <<>> THEN Some(ret)
    ELSE LET kv == key_val(Head(toks))
             r  == dispatch(ret, kv.key, kv.val)
         IN  IF r = None THEN None ELSE for_tokens(Tail(toks), r[1])

from_value(v) == for_tokens(split(v, ","), Default)

\* from_header without the comparison of the name
from_header_no_name_check(v) ==
    LET so == split_once(v, ":")
    IN  IF so = None THEN None ELSE from_value(so[1][2])

\* from_header splitting at the last colon (rsplit_once)
from_header_rsplit(v) ==
    LET i == IF \E k \in 1..Len(v) : v[k] = ":"
             THEN CHOOSE k \in 1..Len(v) : v[k] = ":" /\ \A j \in (k + 1)..Len(v) : v[j] # ":"
             ELSE 0
    IN  IF i = 0 THEN None
        ELSE IF ~eq_ignore_ascii_case(trim(SubSeq(v, 1, i - 1)), <<"C", "a", "c", "h", "e", "-", "C", "o", "n", "t", "r", "o", "l">>) THEN None
        ELSE from_value(SubSeq(v, i + 1, Len(v)))

from_header(v) ==
    LET so == split_once(v, ":")
    IN  IF so = None THEN None
        ELSE IF ~eq_ignore_ascii_case(trim(so[1][1]), <<"C", "a", "c", "h", "e", "-", "C", "o", "n", "t", "r", "o", "l">>) THEN None
        ELSE from_value(so[1][2])

(***************************************************************************)
(* The inputs: a value is up to MaxTokens tokens of ValueTokens, or up to   *)
(* MaxCoreTokens tokens of CoreTokens, joined by commas; a header line is  *)
(* a name, a colon or none, and up to MaxHeaderTokens tokens.              *)
(***************************************************************************)
ValueTokens ==
    {
      (* the empty token: empty input, double comma *)
      <<>>,
      (* blanks only *)
      <<" ">>,
      (* public *)
      <<"p", "u", "b", "l", "i", "c">>,
      (* private, padded with blanks *)
      <<" ", "p", "r", "i", "v", "a", "t", "e", " ">>,
      (* no-cache *)
      <<"n", "o", "-", "c", "a", "c", "h", "e">>,
      (* only-if-cached *)
      <<"o", "n", "l", "y", "-", "i", "f", "-", "c", "a", "c", "h", "e", "d">>,
      (* max-age=60 *)
      <<"m", "a", "x", "-", "a", "g", "e", "=", "6", "0">>,
      (* max-age with a padded value *)
      <<"m", "a", "x", "-", "a", "g", "e", "=", " ", "7", "\t">>,
      (* a sign and a leading zero *)
      <<"m", "a", "x", "-", "a", "g", "e", "=", "+", "0", "6", "0">>,
      (* max-age without a value part *)
      <<"m", "a", "x", "-", "a", "g", "e">>,
      (* max-age with an empty value part *)
      <<"m", "a", "x", "-", "a", "g", "e", "=">>,
      (* max-age=abc *)
      <<"m", "a", "x", "-", "a", "g", "e", "=", "a", "b", "c">>,
      (* max-age=-1 *)
      <<"m", "a", "x", "-", "a", "g", "e", "=", "-", "1">>,
      (* max-age=60=70 *)
      <<"m", "a", "x", "-", "a", "g", "e", "=", "6", "0", "=", "7", "0">>,
      (* max-age=u64::MAX *)
      <<"m", "a", "x", "-", "a", "g", "e", "=", "1", "8", "4", "4", "6", "7", "4", "4", "0", "7", "3", "7", "0", "9", "5", "5", "1", "6", "1", "5">>,
      (* max-age=u64::MAX + 1 *)
      <<"m", "a", "x", "-", "a", "g", "e", "=", "1", "8", "4", "4", "6", "7", "4", "4", "0", "7", "3", "7", "0", "9", "5", "5", "1", "6", "1", "6">>,
      (* max-stale=5 *)
      <<"m", "a", "x", "-", "s", "t", "a", "l", "e", "=", "5">>,
      (* max-stale without a value part *)
      <<"m", "a", "x", "-", "s", "t", "a", "l", "e">>,
      (* min-fresh=0 *)
      <<"m", "i", "n", "-", "f", "r", "e", "s", "h", "=", "0">>,
      (* min-fresh=x *)
      <<"m", "i", "n", "-", "f", "r", "e", "s", "h", "=", "x">>,
      (* must-revalidate *)
      <<"m", "u", "s", "t", "-", "r", "e", "v", "a", "l", "i", "d", "a", "t", "e">>,
      (* proxy-revalidate *)
      <<"p", "r", "o", "x", "y", "-", "r", "e", "v", "a", "l", "i", "d", "a", "t", "e">>,
      (* immutable *)
      <<"i", "m", "m", "u", "t", "a", "b", "l", "e">>,
      (* no-store *)
      <<"n", "o", "-", "s", "t", "o", "r", "e">>,
      (* no-store=foo *)
      <<"n", "o", "-", "s", "t", "o", "r", "e", "=", "f", "o", "o">>,
      (* no-transform *)
      <<"n", "o", "-", "t", "r", "a", "n", "s", "f", "o", "r", "m">>,
      (* s-maxage=10 *)
      <<"s", "-", "m", "a", "x", "a", "g", "e", "=", "1", "0">>,
      (* Public *)
      <<"P", "u", "b", "l", "i", "c">>,
      (* No-Store *)
      <<"N", "o", "-", "S", "t", "o", "r", "e">>,
      (* Max-Age=abc *)
      <<"M", "a", "x", "-", "A", "g", "e", "=", "a", "b", "c">>,
      (* foo *)
      <<"f", "o", "o">>,
      (* =public *)
      <<"=", "p", "u", "b", "l", "i", "c">>,
      (* a=b=c *)
      <<"a", "=", "b", "=", "c">>,
      (* x:y *)
      <<"x", ":", "y">>
    }

\* the tokens drawn for the longer values
CoreTokens ==
    {
      <<>>,
      <<"p", "u", "b", "l", "i", "c">>,
      <<" ", "p", "r", "i", "v", "a", "t", "e", " ">>,
      <<"m", "a", "x", "-", "a", "g", "e", "=", "6", "0">>,
      <<"m", "a", "x", "-", "a", "g", "e", "=", "a", "b", "c">>,
      <<"m", "a", "x", "-", "a", "g", "e", "=", "6", "0", "=", "7", "0">>,
      <<"m", "a", "x", "-", "s", "t", "a", "l", "e", "=", "5">>,
      <<"n", "o", "-", "s", "t", "o", "r", "e">>,
      <<"n", "o", "-", "s", "t", "o", "r", "e", "=", "f", "o", "o">>,
      <<"m", "u", "s", "t", "-", "r", "e", "v", "a", "l", "i", "d", "a", "t", "e">>,
      <<"P", "u", "b", "l", "i", "c">>,
      <<"M", "a", "x", "-", "A", "g", "e", "=", "a", "b", "c">>,
      <<"s", "-", "m", "a", "x", "a", "g", "e", "=", "1", "0">>
    }

HeaderTokens ==
    {
      (* the empty token *)
      <<>>,
      (* a blank, as in "Cache-Control: " *)
      <<" ">>,
      (* public *)
      <<" ", "p", "u", "b", "l", "i", "c">>,
      (* private *)
      <<" ", "p", "r", "i", "v", "a", "t", "e">>,
      (* max-age=60 *)
      <<" ", "m", "a", "x", "-", "a", "g", "e", "=", "6", "0">>,
      (* max-age=abc *)
      <<"m", "a", "x", "-", "a", "g", "e", "=", "a", "b", "c">>,
      (* no-store *)
      <<"n", "o", "-", "s", "t", "o", "r", "e">>,
      (* x:y *)
      <<"x", ":", "y">>
    }

HeaderNames ==
    {
      (* Cache-Control *)
      <<"C", "a", "c", "h", "e", "-", "C", "o", "n", "t", "r", "o", "l">>,
      (* cache-control *)
      <<"c", "a", "c", "h", "e", "-", "c", "o", "n", "t", "r", "o", "l">>,
      (* CACHE-CONTROL, padded *)
      <<" ", "C", "A", "C", "H", "E", "-", "C", "O", "N", "T", "R", "O", "L", "\t">>,
      (* Cache-Contro *)
      <<"C", "a", "c", "h", "e", "-", "C", "o", "n", "t", "r", "o">>,
      (* bar *)
      <<"b", "a", "r">>,
      (* foo *)
      <<"f", "o", "o">>,
      (* the empty name *)
      <<>>
    }

RECURSIVE join(_)
join(toks) ==
    IF Len(toks) = 1 THEN toks[1]
    ELSE toks[1] \o <<",">> \o join(Tail(toks))

TokenSeqs(pool, n) == UNION { [1..k -> pool] : k \in 1..n }

(***************************************************************************)
(* The state machine: one call of from_value or from_header on an input.   *)
(***************************************************************************)
InitValue ==
    /\ fn = "from_value"
    /\ tokens \in TokenSeqs(ValueTokens, MaxTokens) \cup TokenSeqs(CoreTokens, MaxCoreTokens)
    /\ hname = <<>>
    /\ hcolon = FALSE
    /\ value = join(tokens)

InitHeader ==
    /\ fn = "from_header"
    /\ tokens \in TokenSeqs(HeaderTokens, MaxHeaderTokens)
    /\ hname \in HeaderNames
    /\ hcolon \in BOOLEAN
    /\ value = hname \o (IF hcolon THEN <<":">> ELSE <<>>) \o join(tokens)

Init ==
    /\ InitValue \/ InitHeader
    /\ pc = "call"
    /\ result = None

FromValue ==
    /\ pc = "call"
    /\ fn = "from_value"
    /\ result' = from_value(value)
    /\ pc' = "done"
    /\ UNCHANGED <<fn, tokens, hname, hcolon, value>>

FromHeader ==
    /\ pc = "call"
    /\ fn = "from_header"
    /\ result' = from_header(value)
    /\ pc' = "done"
    /\ UNCHANGED <<fn, tokens, hname, hcolon, value>>

Next == FromValue \/ FromHeader

Spec == Init /\ [][Next]_vars

(***************************************************************************)
(* Vocabulary of the claims.  The tokens of an input are the pieces it was *)
(* joined from; key and value part of a token are taken at its first '='.  *)
(***************************************************************************)
Done(f) == pc = "done" /\ fn = f

\* the text after the header name and colon
Rest == join(tokens)

SpecKey(tok) ==
    LET i == find(tok, "=")
    IN  trim(IF i = 0 THEN tok ELSE SubSeq(tok, 1, i - 1))

SpecVal(tok) ==
    LET i == find(tok, "=")
    IN  IF i = 0 THEN None ELSE Some(trim(SubSeq(tok, i + 1, Len(tok))))

CachabilityKeys ==
    [ Public       |-> <<"p", "u", "b", "l", "i", "c">>,
      Private      |-> <<"p", "r", "i", "v", "a", "t", "e">>,
      NoCache      |-> <<"n", "o", "-", "c", "a", "c", "h", "e">>,
      OnlyIfCached |-> <<"o", "n", "l", "y", "-", "i", "f", "-", "c", "a", "c", "h", "e", "d">> ]

DurationKeys ==
    [ max_age   |-> <<"m", "a", "x", "-", "a", "g", "e">>,
      max_stale |-> <<"m", "a", "x", "-", "s", "t", "a", "l", "e">>,
      min_fresh |-> <<"m", "i", "n", "-", "f", "r", "e", "s", "h">> ]

FlagKeys ==
    [ must_revalidate  |-> <<"m", "u", "s", "t", "-", "r", "e", "v", "a", "l", "i", "d", "a", "t", "e">>,
      proxy_revalidate |-> <<"p", "r", "o", "x", "y", "-", "r", "e", "v", "a", "l", "i", "d", "a", "t", "e">>,
      immutable        |-> <<"i", "m", "m", "u", "t", "a", "b", "l", "e">>,
      no_store         |-> <<"n", "o", "-", "s", "t", "o", "r", "e">>,
      no_transform     |-> <<"n", "o", "-", "t", "r", "a", "n", "s", "f", "o", "r", "m">> ]

Range(f) == { f[x] : x \in DOMAIN f }

Vocabulary == Range(CachabilityKeys) \cup Range(DurationKeys) \cup Range(FlagKeys)

DigitChars == {"0", "1", "2", "3", "4", "5", "6", "7", "8", "9"}

Unsigned(v) == IF v # <<>> /\ Head(v) = "+" THEN Tail(v) ELSE v

\* v is a valid non-negative integer of the width of a number of seconds
IsSeconds(v) ==
    /\ Unsigned(v) # <<>>
    /\ \A i \in 1..Len(Unsigned(v)) : Unsigned(v)[i] \in DigitChars
    /\ digits_le(canonical(Unsigned(v)), U64_MAX)

\* the number of seconds a token gives, if it gives one
SecondsOf(tok) ==
    IF SpecVal(tok) # None /\ IsSeconds(SpecVal(tok)[1])
    THEN Some(canonical(Unsigned(SpecVal(tok)[1])))
    ELSE None

\* a numeric directive whose value part is absent or no valid integer
BadNumeric(tok) == SpecKey(tok) \in Range(DurationKeys) /\ SecondsOf(tok) = None

\* the last position of toks that satisfies P, 0 if there is none
LastIndex(toks, P(_)) ==
    IF \E i \in 1..Len(toks) : P(toks[i])
    THEN CHOOSE i \in 1..Len(toks) :
            P(toks[i]) /\ \A j \in (i + 1)..Len(toks) : ~P(toks[j])
    ELSE 0

LastCachability(toks) ==
    LET IsC(t) == SpecKey(t) \in Range(CachabilityKeys)
        i == LastIndex(toks, IsC)
    IN  IF i = 0 THEN None
        ELSE Some(CHOOSE c \in Cachability : CachabilityKeys[c] = SpecKey(toks[i]))

LastSeconds(toks, field) ==
    LET IsF(t) == SpecKey(t) = DurationKeys[field]
        i == LastIndex(toks, IsF)
    IN  IF i = 0 THEN None ELSE SecondsOf(toks[i])

\* the record with every field absent or false
AllDefault ==
    [ cachability |-> <<>>, max_age |-> <<>>, s_max_age |-> <<>>,
      max_stale |-> <<>>, min_fresh |-> <<>>,
      must_revalidate |-> FALSE, proxy_revalidate |-> FALSE,
      immutable |-> FALSE, no_store |-> FALSE, no_transform |-> FALSE ]

Lower(s) == [i \in 1..Len(s) |-> to_ascii_lowercase(s[i])]

\* the header name of a line: its text before the first colon, trimmed
LineHasColon == \E i \in 1..Len(value) : value[i] = ":"

LineName ==
    trim(SubSeq(value, 1, (CHOOSE i \in 1..Len(value) :
                              value[i] = ":" /\ \A j \in 1..(i - 1) : value[j] # ":") - 1))

IsCacheControl(name) == Lower(trim(name)) = <<"c", "a", "c", "h", "e", "-", "c", "o", "n", "t", "r", "o", "l">>

\* toks with every token that satisfies P replaced by the empty token
Blanked(toks, P(_)) == [i \in 1..Len(toks) |-> IF P(toks[i]) THEN <<>> ELSE toks[i]]

CaseVariant(tok) == SpecKey(tok) \notin Vocabulary /\ Lower(SpecKey(tok)) \in Vocabulary

IsSMaxAge(tok) == SpecKey(tok) = <<"s", "-", "m", "a", "x", "a", "g", "e">>

(***************************************************************************)
(* Claims                                                                  *)
(***************************************************************************)

\* C1: from_value returns None whenever some token, at any position and
\* whatever the other tokens are, has the key max-age, max-stale or min-fresh
\* and a value part that is absent or not a valid non-negative integer.
C1_BadNumericFails ==
    (Done("from_value") /\ \E i \in 1..Len(tokens) : BadNumeric(tokens[i]))
        => result = None

\* C2: a malformed numeric directive is the only failure mode of from_value:
\* when no token is a numeric directive with a missing or invalid value,
\* from_value returns a record, whatever unknown, empty or stray-'=' tokens
\* the input holds.
C2_OnlyFailureMode ==
    (Done("from_value") /\ \A i \in 1..Len(tokens) : ~BadNumeric(tokens[i]))
        => result # None

C2_Witness ==
    /\ Done("from_value")
    /\ \A i \in 1..Len(tokens) : ~BadNumeric(tokens[i])
    /\ \E i \in 1..Len(tokens) : tokens[i] = <<>>
    /\ \E i \in 1..Len(tokens) : tokens[i] = <<"a", "=", "b", "=", "c">>
    /\ result # None

\* C3: on a successful from_value, cachability is the variant named by the
\* last cachability token (absent if there is none) and each of max_age,
\* max_stale, min_fresh is the number of seconds given by the last token with
\* that key (absent if there is none).
C3_LastOccurrenceWins ==
    (Done("from_value") /\ result # None) =>
        /\ result[1].cachability = LastCachability(tokens)
        /\ \A f \in DOMAIN DurationKeys : result[1][f] = LastSeconds(tokens, f)

\* C4: from_header returns None for every line without a colon and for every
\* line whose trimmed text before the first colon does not match
\* "Cache-Control" ignoring case, whether or not the rest would parse.
C4_WrongNameFails ==
    (Done("from_header") /\ (~LineHasColon \/ ~IsCacheControl(LineName)))
        => result = None

C4_Witness ==
    /\ Done("from_header")
    /\ LineHasColon
    /\ ~IsCacheControl(LineName)
    /\ hcolon
    /\ from_value(Rest) # None
    /\ from_value(Rest) # Some(AllDefault)
    /\ result = None

\* C5: for a line name ':' rest whose name holds no colon and matches
\* "Cache-Control" ignoring ASCII case after trimming, from_header(line)
\* equals from_value(rest), rest being the untrimmed text after the first
\* colon with any further colons.
C5_HeaderDelegates ==
    (Done("from_header") /\ hcolon /\ IsCacheControl(hname))
        => result = from_value(Rest)

C5_Witness ==
    /\ Done("from_header")
    /\ hcolon
    /\ IsCacheControl(hname)
    /\ hname # <<"C", "a", "c", "h", "e", "-", "C", "o", "n", "t", "r", "o", "l">>
    /\ \E i \in 1..Len(Rest) : Rest[i] = ":"
    /\ Head(Rest) = " "
    /\ result # None
    /\ result = from_value(Rest)

\* C6: when no token has a known directive name as its key, from_value
\* returns the all-default record, as does from_header on a Cache-Control
\* line with such a value; in particular for "" and "Cache-Control: ".
C6_NoDirectiveGivesDefault ==
    /\ (Done("from_value") /\ \A i \in 1..Len(tokens) : SpecKey(tokens[i]) \notin Vocabulary)
          => result = Some(AllDefault)
    /\ (Done("from_header") /\ hcolon /\ hname = <<"C", "a", "c", "h", "e", "-", "C", "o", "n", "t", "r", "o", "l">> /\ tokens = << <<" ">> >>)
          => result = Some(AllDefault)

C6_Witness ==
    /\ Done("from_value")
    /\ value = <<>>
    /\ result = Some(AllDefault)

\* C7: on a successful from_value each boolean field is true exactly when
\* some token has the corresponding key; a value part on such a token is
\* ignored, and no token resets a boolean or sets another one.
C7_FlagsAreOr ==
    (Done("from_value") /\ result # None) =>
        \A f \in DOMAIN FlagKeys :
            result[1][f] = (\E i \in 1..Len(tokens) : SpecKey(tokens[i]) = FlagKeys[f])

C7_Witness ==
    /\ Done("from_value")
    /\ result # None
    /\ Len(tokens) >= 2
    /\ \A i \in 1..Len(tokens) : SpecKey(tokens[i]) = <<"n", "o", "-", "s", "t", "o", "r", "e">>
    /\ \E i \in 1..Len(tokens) : SpecVal(tokens[i]) # None
    /\ result[1].no_store
    /\ ~result[1].must_revalidate

\* C8: each token is split at its first '=' only: the key is the trimmed
\* text before it and the value part the whole trimmed text after it (absent
\* without '='); so a max-age, max-stale or min-fresh token with a second '='
\* has no valid integer value and makes from_value fail.
C8_SplitAtFirstEq ==
    Done("from_value") =>
        /\ \A i \in 1..Len(tokens) :
              key_val(tokens[i]) = [key |-> SpecKey(tokens[i]), val |-> SpecVal(tokens[i])]
        /\ (\E i \in 1..Len(tokens) :
              /\ SpecKey(tokens[i]) \in Range(DurationKeys)
              /\ SpecVal(tokens[i]) # None
              /\ \E k \in 1..Len(SpecVal(tokens[i])[1]) : SpecVal(tokens[i])[1][k] = "=")
           => result = None

\* C9: s_max_age is absent in every record from_value or from_header
\* returns; an s-maxage token is treated as unknown and never makes the
\* parse fail.
C9_SMaxAgeNeverSet ==
    /\ (pc = "done" /\ result # None) => result[1].s_max_age = None
    /\ Done("from_value") => result = from_value(join(Blanked(tokens, IsSMaxAge)))

C9_Witness ==
    /\ Done("from_value")
    /\ \E i \in 1..Len(tokens) : IsSMaxAge(tokens[i]) /\ SecondsOf(tokens[i]) # None
    /\ \E i \in 1..Len(tokens) : SpecKey(tokens[i]) = <<"m", "a", "x", "-", "a", "g", "e">>
    /\ result # None
    /\ result[1].max_age # None
    /\ result[1].s_max_age = None

\* C10: directive names are matched case-sensitively: a token whose key
\* differs from a directive name only in letter case is unknown, changes no
\* field and causes no failure; the header name is compared ignoring case.
C10_CaseSensitivity ==
    /\ Done("from_value") => result = from_value(join(Blanked(tokens, CaseVariant)))
    /\ (Done("from_header") /\ hcolon /\ IsCacheControl(hname))
          => ((result = None) <=> (from_value(Rest) = None))

C10_Witness ==
    /\ Done("from_value")
    /\ \E i \in 1..Len(tokens) : tokens[i] = <<"M", "a", "x", "-", "A", "g", "e", "=", "a", "b", "c">>
    /\ \E i \in 1..Len(tokens) : tokens[i] = <<"P", "u", "b", "l", "i", "c">>
    /\ \E i \in 1..Len(tokens) : tokens[i] = <<"n", "o", "-", "s", "t", "o", "r", "e">>
    /\ result = Some([AllDefault EXCEPT !.no_store = TRUE])

====
